---- MODULE Spec2Model ----
(***************************************************************************)
(* Model of the akioi-2048 move engine (src/src/lib.rs, src/src/board.rs). *)
(* A board is a function 0..3 -> (0..3 -> Int), row first, as the Rust      *)
(* type [[i32; 4]; 4].  A column handed to slide_column is a function       *)
(* 0..3 -> Int, index 0 on top and index 3 at the bottom.                   *)
(*                                                                          *)
(* The three entry points (step, init and the column slide they rest on)   *)
(* are pure functions of their arguments and of the random source, so a    *)
(* behaviour is one pending call (Init) followed by its execution.         *)
(***************************************************************************)
EXTENDS Integers, Sequences, FiniteSets, TLC

VARIABLES pc, op, board, direction, next, moved, ret, delta, msg,
          col, out, score, log

vars == <<pc, op, board, direction, next, moved, ret, delta, msg,
          col, out, score, log>>

(* ------------------------------ bounds --------------------------------- *)

\* Small value tiles offered to the column slide: 2 .. 2^MaxLowExp.
MaxLowExp == 2

\* Small value tiles offered to step: 2 .. 2^MaxStepExp.
MaxStepExp == 1

(* --------------------------- program constants ------------------------- *)

WinTile == 65536

Idx == 0..3

EmptyBoard == [r \in Idx |-> [c \in Idx |-> 0]]

EmptyCol == [i \in Idx |-> 0]

Multipliers == {-1, -2, -4}

SpawnValues == {2, 4, -1, -2}

(* ------------------------------ board.rs ------------------------------- *)

RECURSIVE is_power_of_two(_)
is_power_of_two(value) ==
    /\ value > 0
    /\ \/ value = 1
       \/ value % 2 = 0 /\ is_power_of_two(value \div 2)

ValidTile(tile) ==
    \/ tile = 0
    \/ tile >= 2 /\ tile <= 65536 /\ is_power_of_two(tile)
    \/ tile \in {-1, -2, -4}

validate_board(b) == \A r \in Idx : \A c \in Idx : ValidTile(b[r][c])

(* ------------------------------- lib.rs -------------------------------- *)

\* Rotate board 90 degrees x k clockwise.
rotate(b, k) ==
    CASE k % 4 = 0 -> b
      [] k % 4 = 1 -> [x \in Idx |-> [y \in Idx |-> b[3 - y][x]]]
      [] k % 4 = 2 -> [x \in Idx |-> [y \in Idx |-> b[3 - x][3 - y]]]
      [] k % 4 = 3 -> [x \in Idx |-> [y \in Idx |-> b[y][3 - x]]]

(* i32 arithmetic.  A release build wraps on overflow and a build with     *)
(* overflow checks panics; every operation below yields the wrapped value  *)
(* and the model records separately whether an overflow took place.  The   *)
(* operators never form a number outside -2^31 .. 2^31 - 1 themselves.     *)

MaxI32 == 2147483647

MinI32 == -2147483647 - 1

add_overflows(x, y) ==
    \/ y > 0 /\ x > MaxI32 - y
    \/ y < 0 /\ x < MinI32 - y

wrapping_add(x, y) ==
    IF y > 0 /\ x > MaxI32 - y THEN ((x - MaxI32) - 1) + ((y - MaxI32) - 1)
    ELSE IF y < 0 /\ x < MinI32 - y THEN ((x + MaxI32) + 1) + ((y + MaxI32) + 1)
    ELSE x + y

wrapping_neg(x) == IF x = MinI32 THEN MinI32 ELSE -x

abs_overflows(x) == x = MinI32

wrapping_abs(x) == IF x < 0 THEN wrapping_neg(x) ELSE x

\* The low and the high 16 bits of the two's complement form of x.
lo16(x) == x % 65536

hi16(x) == (x \div 65536) % 65536

\* The i32 whose two's complement form has high half h and low half l.
from_halves(h, l) == (IF h >= 32768 THEN h - 65536 ELSE h) * 65536 + l

\* u * v modulo 2^16 for u, v in 0 .. 2^16 - 1.
mul16(u, v) == ((u % 256) * v + 256 * (((u \div 256) * v) % 256)) % 65536

\* x * y modulo 2^32, by 16-bit halves (the low halves' product by 8-bit
\* parts), so that no intermediate value leaves the i32 range.
wrapping_mul(x, y) ==
    LET p0 == (lo16(x) % 256) * lo16(y)
        p1 == (lo16(x) \div 256) * lo16(y)
        ll == p0 + 256 * (p1 % 256)
        c1 == mul16(hi16(x), lo16(y))
        c2 == mul16(hi16(y), lo16(x))
    IN from_halves(((ll \div 65536) + (p1 \div 256) + c1 + c2) % 65536, ll % 65536)

\* The exact product x * y lies outside the i32 range.
mul_overflows(x, y) ==
    IF x = 0 \/ y = 0 THEN FALSE
    ELSE IF x = MinI32 THEN y # 1
    ELSE IF y = MinI32 THEN x # 1
    ELSE LET ax == IF x < 0 THEN -x ELSE x
             ay == IF y < 0 THEN -y ELSE y
         IN IF (x < 0) = (y < 0)
            THEN ax > MaxI32 \div ay
            ELSE /\ ax > MaxI32 \div ay
                 /\ ~(ax - 1 = MaxI32 \div ay /\ MaxI32 % ay = ay - 1)

\* Option<(i32, i32)> together with the overflow record.
None(o) == [some |-> FALSE, tile |-> 0, add |-> 0, ovf |-> o]

Some(t, a, o) == [some |-> TRUE, tile |-> t, add |-> a, ovf |-> o]

all_nonzero(below) == \A i \in 1..Len(below) : below[i] # 0

\* try_merge with a numeric + multiplier rule that ignores the cells below.
try_merge_nobelow(a, b, adjacent, below) ==
    IF a > 0 /\ b > 0 /\ a = b /\ a < 65536 THEN Some(a + b, a + b, FALSE)
    ELSE IF a < 0 /\ b < 0 /\ a = b /\ a > -4 THEN Some(a * 2, a * 2, FALSE)
    ELSE LET p  == wrapping_mul(a, b)
             po == mul_overflows(a, b)
         IN IF p < 0 /\ adjacent
            THEN LET num == IF a > 0 THEN a ELSE b
                     mul == IF a < 0 THEN a ELSE b
                     m   == wrapping_abs(mul)
                     v   == wrapping_mul(num, m)
                 IN Some(v, v, po \/ abs_overflows(mul) \/ mul_overflows(num, m))
            ELSE None(po)

\* try_merge without the equality test of the numeric + numeric rule.
try_merge_noeq(a, b, adjacent, below) ==
    IF a > 0 /\ b > 0 /\ a < 65536 /\ b < 65536 THEN Some(a + b, a + b, FALSE)
    ELSE IF a < 0 /\ b < 0 /\ a = b /\ a > -4 THEN Some(a * 2, a * 2, FALSE)
    ELSE LET p  == wrapping_mul(a, b)
             po == mul_overflows(a, b)
         IN IF p < 0 /\ adjacent /\ (Len(below) = 0 \/ all_nonzero(below))
            THEN LET num == IF a > 0 THEN a ELSE b
                     mul == IF a < 0 THEN a ELSE b
                     m   == wrapping_abs(mul)
                     v   == wrapping_mul(num, m)
                 IN Some(v, v, po \/ abs_overflows(mul) \/ mul_overflows(num, m))
            ELSE None(po)

\* Determine and perform a merge; below is the slice col[r+1..4] as a sequence.
\* a + b and a * 2 cannot overflow under their guards (a = b < 65536, -4 < a < 0).
try_merge(a, b, adjacent, below) ==
    IF a > 0 /\ b > 0 /\ a = b /\ a < 65536 THEN Some(a + b, a + b, FALSE)
    ELSE IF a < 0 /\ b < 0 /\ a = b /\ a > -4 THEN Some(a * 2, a * 2, FALSE)
    ELSE LET p  == wrapping_mul(a, b)
             po == mul_overflows(a, b)
         IN IF p < 0 /\ adjacent /\ (Len(below) = 0 \/ all_nonzero(below))
            THEN LET num == IF a > 0 THEN a ELSE b
                     mul == IF a < 0 THEN a ELSE b
                     m   == wrapping_abs(mul)
                     v   == wrapping_mul(num, m)
                 IN Some(v, v, po \/ abs_overflows(mul) \/ mul_overflows(num, m))
            ELSE None(po)

\* The inner while loop: first non-zero index above, starting at s; -1 if none.
RECURSIVE find_above(_, _)
find_above(c, s) ==
    IF s >= 0 /\ c[s] = 0 THEN find_above(c, s - 1) ELSE s

\* &col[(r + 1)..4]
below_slice(c, r) == [i \in 1..(3 - r) |-> c[r + i]]

\* One record of the scan history: the pair (r, s) examined (s = -1 when no
\* tile lies above r), the slot w written, and what was written there.
ScanStep(r, s, w, m, t, a) ==
    [r |-> r, s |-> s, w |-> w, merged |-> m, tile |-> t, add |-> a]

RECURSIVE slide_loop(_, _, _, _, _, _, _)

\* The match on merged, in which a merged tile is put back and scanned again.
write_slot_chain(c, r, s, merged, w, o, sc, ov, lg) ==
    IF merged.some
    THEN slide_loop([c EXCEPT ![r] = 0, ![s] = merged.tile], s, w, o,
             wrapping_add(sc, merged.add),
             ov \/ merged.ovf \/ add_overflows(sc, merged.add),
             Append(lg, ScanStep(r, s, w, TRUE, merged.tile, merged.add)))
    ELSE slide_loop(c, r - 1, w - 1, [o EXCEPT ![w] = c[r]], sc,
             ov \/ merged.ovf,
             Append(lg, ScanStep(r, s, w, FALSE, c[r], 0)))

\* match merged { Some((tile, add)) => ..., None => ... }: write slot w and
\* move the pointers on.
write_slot(c, r, s, merged, w, o, sc, ov, lg) ==
    IF merged.some
    THEN slide_loop(c, s - 1, w - 1, [o EXCEPT ![w] = merged.tile],
             wrapping_add(sc, merged.add),
             ov \/ merged.ovf \/ add_overflows(sc, merged.add),
             Append(lg, ScanStep(r, s, w, TRUE, merged.tile, merged.add)))
    ELSE slide_loop(c, r - 1, w - 1, [o EXCEPT ![w] = c[r]], sc,
             ov \/ merged.ovf,
             Append(lg, ScanStep(r, s, w, FALSE, c[r], 0)))

\* try merging r and s, s being the first non-zero index above r (or -1).
scan_pair(c, r, s, w, o, sc, ov, lg) ==
    write_slot(c, r, s,
               IF s >= 0
               THEN try_merge(c[r], c[s], r = s + 1, below_slice(c, r))
               ELSE None(FALSE),
               w, o, sc, ov, lg)

\* The while loop of slide_column from read pointer r and write pointer w,
\* with the output so far, the score so far, the overflow record and the
\* history of the scan steps taken.
slide_loop(c, r, w, o, sc, ov, lg) ==
    IF r < 0 THEN [out |-> o, score |-> sc, ovf |-> ov, log |-> lg]
    ELSE IF c[r] = 0 THEN slide_loop(c, r - 1, w, o, sc, ov, lg)
    ELSE scan_pair(c, r, find_above(c, r - 1), w, o, sc, ov, lg)

\* Process one column: (out, score) as returned, the overflow record and the
\* scan history.
slide_column(c) == slide_loop(c, 3, 3, EmptyCol, 0, FALSE, <<>>)

\* single_step's table with the rotations of Left and Right exchanged.
rot_of_swapped(action) ==
    CASE action = "Down"  -> 0
      [] action = "Up"    -> 2
      [] action = "Left"  -> 1
      [] action = "Right" -> 3

\* The rotation count single_step picks for an action.
rot_of(action) ==
    CASE action = "Down"  -> 0
      [] action = "Up"    -> 2
      [] action = "Left"  -> 3
      [] action = "Right" -> 1

\* delta += add over the columns c .. 3, in order; slid[c + 1] is column c.
RECURSIVE sum_add(_, _, _, _)
sum_add(slid, c, acc, ov) ==
    IF c > 3 THEN [delta |-> acc, ovf |-> ov]
    ELSE sum_add(slid, c + 1, wrapping_add(acc, slid[c + 1].score),
                 ov \/ slid[c + 1].ovf \/ add_overflows(acc, slid[c + 1].score))

\* [work[0][c], work[1][c], work[2][c], work[3][c]]
column(work, c) == [r \in Idx |-> work[r][c]]

\* Return (new_board, delta_score, victory?) (no random tile spawn), and
\* whether any operation overflowed on the way.
single_step(b, action) ==
    LET rot  == rot_of(action)
        work == rotate(b, rot)
        slid == <<slide_column(column(work, 0)), slide_column(column(work, 1)),
                  slide_column(column(work, 2)), slide_column(column(work, 3))>>
        done == [r \in Idx |-> [c \in Idx |-> slid[c + 1].out[r]]]
        nxt  == rotate(done, (4 - rot) % 4)
        sum  == sum_add(slid, 0, 0, FALSE)
    IN [next    |-> nxt,
        delta   |-> sum.delta,
        victory |-> \E r \in Idx : \E c \in Idx : nxt[r][c] = 65536,
        ovf     |-> sum.ovf]

idx_to_action(i) == <<"Up", "Down", "Left", "Right">>[i + 1]

\* step's match on the direction code.
action_of(d) ==
    CASE d = 0 -> "Down"
      [] d = 1 -> "Right"
      [] d = 2 -> "Up"
      [] d = 3 -> "Left"

empties(b) == {p \in Idx \X Idx : b[p[1]][p[2]] = 0}

\* spawn_tile that picks its position among all sixteen cells.
spawn_tile_anycell(b) ==
    {[b EXCEPT ![p[1]][p[2]] = v] : p \in Idx \X Idx, v \in SpawnValues}

\* spawn_tile whose last branch yields -4 instead of -2.
spawn_tile_x4(b) ==
    IF empties(b) = {} THEN {b}
    ELSE {[b EXCEPT ![p[1]][p[2]] = v] : p \in empties(b), v \in {2, 4, -1, -4}}

\* Spawn a random tile on an empty cell: the set of boards the random source
\* can produce (every position and every value has positive probability).
spawn_tile(b) ==
    IF empties(b) = {} THEN {b}
    ELSE {[b EXCEPT ![p[1]][p[2]] = v] : p \in empties(b), v \in SpawnValues}

\* moved taken to be true whatever the slide did.
moved_always(nxt, b) == TRUE

\* let moved = next != board;
moved_of(nxt, b) == nxt # b

\* The directions (0..4).all(|d| single_step(&next, idx_to_action(d)).0 == next)
\* evaluates: all stops at the first direction that changes the board.
probed(nxt) ==
    {d \in 0..3 : \A e \in 0..(d - 1) : single_step(nxt, idx_to_action(e)).next = nxt}

\* let dead = !moved && (0..4).all(...); with the overflow record of the
\* directions that were evaluated.
dead_of(mv, nxt) ==
    IF mv THEN [dead |-> FALSE, ovf |-> FALSE]
    ELSE [dead |-> \A d \in 0..3 : single_step(nxt, idx_to_action(d)).next = nxt,
          ovf  |-> \E d \in probed(nxt) : single_step(nxt, idx_to_action(d)).ovf]

\* The status with the defeat test ahead of the victory test.
msg_dead_first(victory, dead) == IF dead THEN -1 ELSE IF victory THEN 1 ELSE 0

\* let msg = if victory { 1 } else if dead { -1 } else { 0 };
msg_of(victory, dead) == IF victory THEN 1 ELSE IF dead THEN -1 ELSE 0

\* step: every outcome of the call for a 4x4 board and a code 0..3.  ovf says
\* that the call overflowed: a build with overflow checks then panics instead
\* of returning.
step(b, d) ==
    LET ss == single_step(b, action_of(d))
        mv == moved_of(ss.next, b)
    IN {[next  |-> ss.next,
         moved |-> mv,
         ret   |-> nb,
         delta |-> ss.delta,
         msg   |-> msg_of(ss.victory, dead_of(mv, nb).dead),
         ovf   |-> ss.ovf \/ dead_of(mv, nb).ovf] :
            nb \in IF mv THEN spawn_tile(ss.next) ELSE {ss.next}}

\* init: every board the call can return.
init == UNION {spawn_tile(b1) : b1 \in spawn_tile(EmptyBoard)}

(* --------------------------- inputs of the calls ----------------------- *)

RECURSIVE pow2(_)
pow2(k) == IF k = 0 THEN 1 ELSE 2 * pow2(k - 1)

HighValues == {WinTile \div 2, WinTile}

\* Tiles of the columns handed to slide_column.
ColTiles == {0} \cup {pow2(k) : k \in 1..MaxLowExp} \cup HighValues \cup Multipliers

Cols == [Idx -> ColTiles]

\* Tiles of the boards handed to step.
StepTiles == {0} \cup {pow2(k) : k \in 1..MaxStepExp} \cup HighValues \cup {-2, -4}

\* Boards that repeat a 2x2 block.
Tiled(blk) == [r \in Idx |-> [c \in Idx |-> blk[2 * (r % 2) + (c % 2)]]]

\* Boards whose rows and columns are the cyclic shifts of one line.
Circulant(line) == [r \in Idx |-> [c \in Idx |-> line[(r + c) % 4]]]

Boards == {Tiled(blk) : blk \in [Idx -> StepTiles]}
          \cup {Circulant(line) : line \in [Idx -> StepTiles]}

(* ------------------------------ the machine ---------------------------- *)

NoStep == /\ board = EmptyBoard /\ direction = 0 /\ next = EmptyBoard
          /\ moved = FALSE /\ ret = EmptyBoard /\ delta = 0 /\ msg = 0

NoSlide == col = EmptyCol /\ out = EmptyCol /\ score = 0 /\ log = <<>>

\* A pending call of step on a caller's board, of init, or of slide_column.
InitStep ==
    /\ pc = "call" /\ op = "step"
    /\ board \in Boards /\ direction \in 0..3
    /\ next = EmptyBoard /\ moved = FALSE /\ ret = EmptyBoard
    /\ delta = 0 /\ msg = 0
    /\ NoSlide

InitInit == pc = "call" /\ op = "init" /\ NoStep /\ NoSlide

InitSlide ==
    /\ pc = "call" /\ op = "slide_column"
    /\ col \in Cols /\ out = EmptyCol /\ score = 0 /\ log = <<>>
    /\ NoStep

Init == InitStep \/ InitInit \/ InitSlide

\* step returns res, or panics when an operation overflowed and the build
\* checks overflow.
CallStep ==
    /\ pc = "call" /\ op = "step"
    /\ \E res \in step(board, direction) :
          \/ /\ pc' = "done"
             /\ next' = res.next
             /\ moved' = res.moved
             /\ ret' = res.ret
             /\ delta' = res.delta
             /\ msg' = res.msg
          \/ /\ res.ovf
             /\ pc' = "panicked"
             /\ UNCHANGED <<next, moved, ret, delta, msg>>
    /\ UNCHANGED <<op, board, direction, col, out, score, log>>

CallInit ==
    /\ pc = "call" /\ op = "init"
    /\ ret' \in init
    /\ pc' = "done"
    /\ UNCHANGED <<op, board, direction, next, moved, delta, msg,
                   col, out, score, log>>

CallSlideColumn ==
    /\ pc = "call" /\ op = "slide_column"
    /\ LET res == slide_column(col)
       IN \/ /\ pc' = "done"
             /\ out' = res.out
             /\ score' = res.score
             /\ log' = res.log
          \/ /\ res.ovf
             /\ pc' = "panicked"
             /\ UNCHANGED <<out, score, log>>
    /\ UNCHANGED <<op, board, direction, next, moved, ret, delta, msg, col>>

Next == CallStep \/ CallInit \/ CallSlideColumn

Spec == Init /\ [][Next]_vars

\* The machine restricted to one entry point.
NextStep == CallStep

StepSpec == InitStep /\ [][NextStep]_vars

NextInit == CallInit

InitSpec == InitInit /\ [][NextInit]_vars

NextSlide == CallSlideColumn

SlideSpec == InitSlide /\ [][NextSlide]_vars

(* ------------------------------ properties ----------------------------- *)

Cells == Idx \X Idx

StepReturned == pc = "done" /\ op = "step"

SlideReturned == pc = "done" /\ op = "slide_column"

Has65536(b) == \E p \in Cells : b[p[1]][p[2]] = 65536

Full(b) == \A p \in Cells : b[p[1]][p[2]] # 0

\* The merge rules as the specification words them, for two neighbours on a
\* full board (where the cells toward any edge are all non-empty).
LegalMerge(a, b) ==
    \/ a > 0 /\ b > 0 /\ a = b /\ a < 65536
    \/ a < 0 /\ b < 0 /\ a = b /\ a > -4
    \/ a > 0 /\ b < 0
    \/ a < 0 /\ b > 0

NoLegalMerge(b) ==
    /\ \A r \in Idx : \A c \in 0..2 : ~LegalMerge(b[r][c], b[r][c + 1])
    /\ \A r \in 0..2 : \A c \in Idx : ~LegalMerge(b[r][c], b[r + 1][c])

\* C1: every cell of the board step returns for a board of valid tiles is a
\* valid tile (0, a power of two in 2..65536, or -1, -2, -4).
C1_DomainPreserved ==
    (StepReturned /\ validate_board(board)) => validate_board(ret)

\* C2: when the slide leaves the board unchanged, step spawns nothing (the
\* returned board is the input board) and the returned score delta is 0.
C2_InvalidMoveNoOp ==
    (StepReturned /\ next = board) => (ret = board /\ delta = 0)

\* An unchanged, non-empty board that had room for a spawn.
C2_Witness ==
    /\ StepReturned /\ next = board
    /\ board # EmptyBoard /\ ~Full(board) /\ ret = board /\ msg = 0

C5_InvalidMoveMsgZero ==
    (StepReturned /\ next = board) => msg = 0

\* C6: after a slide that changed the board, the returned board differs from
\* the post-slide board in exactly one cell, empty after the slide and now one
\* of 2, 4, -1, -2; so a changed post-slide board always has an empty cell.
C6_SpawnExactlyOne ==
    (StepReturned /\ next # board) =>
        /\ empties(next) # {}
        /\ \E p \in Cells :
              /\ next[p[1]][p[2]] = 0
              /\ ret[p[1]][p[2]] \in {2, 4, -1, -2}
              /\ \A q \in Cells \ {p} : ret[q[1]][q[2]] = next[q[1]][q[2]]

\* A full board on which a merge frees the cells the spawn can use.
C6_Witness ==
    /\ StepReturned /\ next # board /\ Full(board)
    /\ Cardinality(empties(next)) <= 4 /\ Cardinality(empties(ret)) >= 1

\* C7: init returns a board with exactly two non-empty cells, each one of
\* 2, 4, -1, -2, and fourteen empty cells.
C7_InitTwoTiles ==
    (pc = "done" /\ op = "init") =>
        /\ Cardinality({p \in Cells : ret[p[1]][p[2]] # 0}) = 2
        /\ Cardinality(empties(ret)) = 14
        /\ \A p \in Cells : ret[p[1]][p[2]] \in {0, 2, 4, -1, -2}

\* An initial board with two different tiles.
C7_Witness ==
    pc = "done" /\ op = "init" /\ ret[0][0] = -2 /\ ret[3][3] = 4

\* Line k of board b read toward the edge direction code d names, index 3
\* being the cell nearest that edge.
Line(b, d, k) ==
    CASE d = 0 -> [i \in Idx |-> b[i][k]]
      [] d = 1 -> [i \in Idx |-> b[k][i]]
      [] d = 2 -> [i \in Idx |-> b[3 - i][k]]
      [] d = 3 -> [i \in Idx |-> b[k][3 - i]]

\* Every line of b slid directly toward the edge d names.
DirectLines(b, d) ==
    <<slide_column(Line(b, d, 0)), slide_column(Line(b, d, 1)),
      slide_column(Line(b, d, 2)), slide_column(Line(b, d, 3))>>

\* The lines put back in place: 0 = Down (toward row 3), 1 = Right (toward
\* column 3), 2 = Up (toward row 0), 3 = Left (toward column 0).
DirectBoard(lines, d) ==
    [r \in Idx |-> [c \in Idx |->
        CASE d = 0 -> lines[c + 1].out[r]
          [] d = 1 -> lines[r + 1].out[c]
          [] d = 2 -> lines[c + 1].out[3 - r]
          [] d = 3 -> lines[r + 1].out[3 - c]]]

DirectScore(lines) ==
    wrapping_add(wrapping_add(lines[1].score, lines[2].score),
                 wrapping_add(lines[3].score, lines[4].score))

\* C8: the pre-spawn board and the score delta of step equal those of sliding
\* each line directly toward the edge the direction code names.
C8_DirectionMapping ==
    StepReturned =>
        LET lines == DirectLines(board, direction)
        IN /\ next = DirectBoard(lines, direction)
           /\ delta = DirectScore(lines)

\* A scoring move to the left whose result differs from the one to the right.
C8_Witness ==
    /\ StepReturned /\ direction = 3 /\ next # board /\ delta > 0
    /\ DirectBoard(DirectLines(board, 3), 3) # DirectBoard(DirectLines(board, 1), 1)

Cross(a, b) == (a > 0 /\ b < 0) \/ (a < 0 /\ b > 0)

CrossProduct(a, b) == IF a > 0 THEN a * (-b) ELSE b * (-a)

Col4(a, b, c, d) == [i \in Idx |-> <<a, b, c, d>>[i + 1]]

Merges == {i \in 1..Len(log) : log[i].merged}

NonEmpty(c) == {i \in Idx : c[i] # 0}

\* C10: in one slide_column call every input tile takes part in at most one
\* merge, a merged tile is written as is and the scan resumes strictly above
\* the pair; so there are at most two merges, the output is packed at the
\* bottom, and [0,4,2,2] gives [0,0,4,4] with score 4.
C10_SingleMerge ==
    SlideReturned =>
        /\ \A i \in Merges : \A j \in Merges :
              i # j => {log[i].r, log[i].s} \cap {log[j].r, log[j].s} = {}
        /\ \A i \in Merges :
              /\ log[i].s >= 0 /\ log[i].s < log[i].r
              /\ out[log[i].w] = log[i].tile
              /\ i < Len(log) => log[i + 1].r < log[i].s
        /\ \A i \in 1..Len(log) : \A j \in 1..Len(log) :
              i # j => log[i].w # log[j].w
        /\ Cardinality(Merges) <= 2
        /\ Cardinality(NonEmpty(out)) = Cardinality(NonEmpty(col)) - Cardinality(Merges)
        /\ \A i \in 0..2 : out[i] # 0 => out[i + 1] # 0
        /\ col = Col4(0, 4, 2, 2) => (out = Col4(0, 0, 4, 4) /\ score = 4)

\* The column [0,4,2,2] after its slide.
C10_Witness ==
    SlideReturned /\ col = Col4(0, 4, 2, 2) /\ Cardinality(Merges) = 1

====
